---- MODULE Spec2Model ----
(***************************************************************************)
(* VC Map dashboard (src/app.py): one top-to-bottom run of the Streamlit   *)
(* script.  The script reads the CSV, normalises its column names,         *)
(* validates and coerces the coordinates, adds jitter, parses the Stage    *)
(* and Sector tag columns, reads the two sidebar multiselects, filters,    *)
(* and renders the table, the map and the detail panel.                    *)
(*                                                                         *)
(* Text is a sequence of one-character strings.  A cell of the data frame  *)
(* is a record [k, v]: k = "str" (v the text), k = "nan" (a missing cell,  *)
(* pandas' float NaN), k = "fin" (a finite float, v an integer number of   *)
(* coordinate units), k = "inf" (v = 1 or -1), k = "list" (v a sequence of *)
(* texts).  One coordinate unit is 0.002 degrees, the jitter radius.       *)
(* A row is a function from column names to cells.                         *)
(*                                                                         *)
(* State: pc is the position in the script ("stopped" after st.stop(),     *)
(* "crashed" after an exception nothing catches); source is what read_csv  *)
(* met at DATA_PATH; columns and df are the data frame; all_sectors and    *)
(* all_stages are the multiselect options, selected_sectors and            *)
(* selected_stages the values the widgets return (as sets: the script only *)
(* tests membership and emptiness); ui is the set of elements rendered;    *)
(* ran lists the steps executed so far.  raw and tags belong to the        *)
(* specification of the tag parser on its own (SpecParse).                 *)
(*                                                                         *)
(* The files enumerated have a name column, Sector and Stage columns and   *)
(* at most one alias per coordinate; the Address, City and Website         *)
(* columns, which the script only displays, are left out.                  *)
(***************************************************************************)
EXTENDS Integers, Sequences, FiniteSets, TLC

VARIABLES pc, source, columns, df, all_sectors, selected_sectors,
          all_stages, selected_stages, filtered_df, display_df, ui, ran,
          raw, tags

vars == <<pc, source, columns, df, all_sectors, selected_sectors,
          all_stages, selected_stages, filtered_df, display_df, ui, ran,
          raw, tags>>

----------------------------------------------------------------------------
(* Bounds of the model. *)

\* Largest number of rows of the CSV file.
MaxRows == 2

\* Longest raw text handed to the tag parser on its own.
MaxLen == 4

----------------------------------------------------------------------------
(* Text. *)

Whitespace == {" ", "\t"}

\* The characters of the tag texts, in code point order (Python's str order).
CodeOrder == <<"\t", " ", ",", "A", "F", "S", "a", "b", "d", "e", "i", "n">>

Ord(c) == CHOOSE i \in 1..Len(CodeOrder) : CodeOrder[i] = c

RECURSIVE LStrip(_)
LStrip(s) == IF s # <<>> /\ Head(s) \in Whitespace THEN LStrip(Tail(s)) ELSE s

RECURSIVE RStrip(_)
RStrip(s) ==
  IF s # <<>> /\ s[Len(s)] \in Whitespace
    THEN RStrip(SubSeq(s, 1, Len(s) - 1))
    ELSE s

\* str.strip(): leading and trailing whitespace removed.
Strip(s) == RStrip(LStrip(s))

\* str.split(","): the pieces between the commas, at least one piece.
RECURSIVE SplitFrom(_, _)
SplitFrom(s, piece) ==
  IF s = <<>> THEN <<piece>>
  ELSE IF Head(s) = "," THEN <<piece>> \o SplitFrom(Tail(s), <<>>)
  ELSE SplitFrom(Tail(s), Append(piece, Head(s)))

Split(s) == SplitFrom(s, <<>>)

\* [s.strip() for s in x.split(",") if s.strip()]
RECURSIVE StripNonEmpty(_)
StripNonEmpty(pieces) ==
  IF pieces = <<>> THEN <<>>
  ELSE IF Strip(Head(pieces)) # <<>>
    THEN <<Strip(Head(pieces))>> \o StripNonEmpty(Tail(pieces))
    ELSE StripNonEmpty(Tail(pieces))

\* The pieces that are non-empty once stripped, kept unstripped.
ParseTags_unstripped(x) ==
  SelectSeq(Split(x), LAMBDA piece : Strip(piece) # <<>>)

ParseTags(x) == StripNonEmpty(Split(x))

\* ", ".join(x)
RECURSIVE Join(_)
Join(x) ==
  IF x = <<>> THEN <<>>
  ELSE IF Len(x) = 1 THEN x[1]
  ELSE x[1] \o <<",", " ">> \o Join(Tail(x))

\* Python's order on str: lexicographic by code point.
RECURSIVE StrLess(_, _)
StrLess(a, b) ==
  IF b = <<>> THEN FALSE
  ELSE IF a = <<>> THEN TRUE
  ELSE IF Head(a) = Head(b) THEN StrLess(Tail(a), Tail(b))
  ELSE Ord(Head(a)) < Ord(Head(b))

RECURSIVE SetToSeq(_)
SetToSeq(S) ==
  IF S = {} THEN <<>> ELSE LET x == CHOOSE x \in S : TRUE
                           IN  <<x>> \o SetToSeq(S \ {x})

\* sorted(set)
Sorted(S) == SortSeq(SetToSeq(S), StrLess)

Range(s) == {s[i] : i \in 1..Len(s)}

----------------------------------------------------------------------------
(* Cells. *)

Str(s)   == [k |-> "str", v |-> s]
NaN      == [k |-> "nan", v |-> 0]
Fin(n)   == [k |-> "fin", v |-> n]
Inf(sgn) == [k |-> "inf", v |-> sgn]
List(l)  == [k |-> "list", v |-> l]

Digits == <<"0", "1", "2", "3", "4", "5", "6", "7", "8", "9">>

IsDigit(c) == \E i \in 1..10 : Digits[i] = c

DigitVal(c) == (CHOOSE i \in 1..10 : Digits[i] = c) - 1

RECURSIVE DecimalValue(_)
DecimalValue(s) ==
  IF s = <<>> THEN 0
  ELSE 10 * DecimalValue(SubSeq(s, 1, Len(s) - 1)) + DigitVal(s[Len(s)])

IsDecimal(s) == s # <<>> /\ \A i \in 1..Len(s) : IsDigit(s[i])

\* The float a text parses to, NaN when it is no number.
ParseFloat(s) ==
  IF IsDecimal(s) THEN Fin(DecimalValue(s))
  ELSE IF s # <<>> /\ Head(s) = "-" /\ IsDecimal(Tail(s))
    THEN Fin(0 - DecimalValue(Tail(s)))
  ELSE IF s = <<"i", "n", "f">> THEN Inf(1)
  ELSE IF s = <<"-", "i", "n", "f">> THEN Inf(-1)
  ELSE NaN

\* pd.to_numeric(..., errors='coerce') on one cell.
to_numeric(cell) ==
  IF cell.k = "str" THEN ParseFloat(cell.v)
  ELSE IF cell.k \in {"fin", "inf"} THEN cell
  ELSE NaN

\* A missing cell turned into the empty text.
astype_str_blank(cell) ==
  IF cell.k = "str" THEN cell.v ELSE <<>>

\* Series.astype(str) on one cell of a text column: a text stays as it is, a
\* missing cell (NaN) becomes the text "nan".
astype_str(cell) ==
  IF cell.k = "str" THEN cell.v ELSE <<"n", "a", "n">>

\* Float addition of a finite offset.
FloatAdd(x, d) == IF x.k = "fin" THEN Fin(x.v + d) ELSE x

----------------------------------------------------------------------------
(* Column names and program constants. *)

Name         == <<"N", "a", "m", "e">>
name         == <<"n", "a", "m", "e">>
Lat          == <<"L", "a", "t">>
Long         == <<"L", "o", "n", "g">>
Latitude     == <<"L", "a", "t", "i", "t", "u", "d", "e">>
Longitude    == <<"L", "o", "n", "g", "i", "t", "u", "d", "e">>
latitude     == <<"l", "a", "t", "i", "t", "u", "d", "e">>
longitude    == <<"l", "o", "n", "g", "i", "t", "u", "d", "e">>
lat_jitter   == <<"l", "a", "t", "_", "j">>
lon_jitter   == <<"l", "o", "n", "_", "j">>
Stage        == <<"S", "t", "a", "g", "e">>
Sector       == <<"S", "e", "c", "t", "o", "r">>
Stage_Str    == <<"S", "t", "a", "g", "e", "_", "S", "t", "r">>
Sector_Str   == <<"S", "e", "c", "t", "o", "r", "_", "S", "t", "r">>

\* The jitter radius, 0.002 degrees, in coordinate units.
JITTER == 1

----------------------------------------------------------------------------
(* The input: what pd.read_csv(DATA_PATH) finds. *)

\* Tag texts of the sample file.
Fin_SaaS  == <<"F", "i", "n", ",", " ", "S", "a", "a", "S">>
FinSaaS   == <<"F", "i", "n", ",", "S", "a", "a", "S">>
Seed      == <<"S", "e", "e", "d">>
SeriesA   == <<"A">>
Seed_A_A  == <<"S", "e", "e", "d", ",", " ", "A", ",", " ", " ", "A">>
Blank     == <<" ", ",", " ">>
FinTag    == <<"F", "i", "n">>
SaaSTag   == <<"S", "a", "a", "S">>
nanTag    == <<"n", "a", "n">>

\* The data rows a file is drawn from: name, the two coordinate cells, and
\* the raw Sector and Stage cells.  An empty CSV field is read as NaN.
SampleRows ==
  << [n |-> Str(<<"A">>), lat |-> Str(<<"3">>), lon |-> Str(<<"-", "7">>),
      sector |-> Str(Fin_SaaS), stage |-> Str(Seed)],
     [n |-> Str(<<"B">>), lat |-> Str(<<"3">>), lon |-> Str(<<"-", "7">>),
      sector |-> Str(FinSaaS), stage |-> Str(SeriesA)],
     [n |-> Str(<<"C">>), lat |-> Str(<<"1", "2">>), lon |-> Str(<<"5">>),
      sector |-> NaN, stage |-> Str(Seed_A_A)],
     [n |-> Str(<<"D">>), lat |-> Str(<<"1", "2">>), lon |-> Str(<<"0">>),
      sector |-> Str(Blank), stage |-> Str(SeriesA)],
     [n |-> Str(<<"E">>), lat |-> Str(<<"i", "n", "f">>), lon |-> Str(<<"5">>),
      sector |-> Str(FinTag), stage |-> NaN],
     [n |-> Str(<<"F">>), lat |-> Str(<<"a", "b">>), lon |-> Str(<<"5">>),
      sector |-> Str(FinTag), stage |-> Str(Seed)],
     [n |-> Str(<<"G">>), lat |-> Str(<<"3">>), lon |-> NaN,
      sector |-> Str(FinTag), stage |-> Str(SeriesA)] >>

\* The header rows a file is drawn from: the headers of the name column and
\* of the two coordinate columns.  Every file has Sector and Stage columns.
SampleHeaders ==
  { [n |-> Name, lat |-> <<" ">> \o Lat \o <<" ">>, lon |-> Long],
    [n |-> name, lat |-> Latitude, lon |-> Longitude \o <<" ">>],
    [n |-> name, lat |-> latitude, lon |-> longitude],
    [n |-> Name, lat |-> <<"l", "a", "t">>, lon |-> Long],
    [n |-> Name, lat |-> Lat, lon |-> <<"L", "n", "g">>],
    [n |-> Name, lat |-> <<"Y">>, lon |-> <<"X">>] }

RECURSIVE Ascending(_)
Ascending(S) ==
  IF S = {} THEN <<>>
  ELSE LET m == CHOOSE m \in S : \A x \in S : m <= x
       IN  <<m>> \o Ascending(S \ {m})

\* The row of the data frame read from a data row under a header row.
CsvRow(h, r) ==
  (h.n :> r.n) @@ (h.lat :> r.lat) @@ (h.lon :> r.lon)
    @@ (Sector :> r.sector) @@ (Stage :> r.stage)

\* The data frames pd.read_csv returns: a header row and at most MaxRows of
\* the sample rows, in file order.
CsvFiles ==
  { [columns |-> {h.n, h.lat, h.lon, Sector, Stage},
     rows |-> [i \in 1..Cardinality(S) |->
                 CsvRow(h, SampleRows[Ascending(S)[i]])]] :
      h \in SampleHeaders,
      S \in {T \in SUBSET (1..Len(SampleRows)) : Cardinality(T) <= MaxRows} }

----------------------------------------------------------------------------
(* The steps of the script. *)

Init ==
  /\ pc = "start"
  /\ source = "unread"
  /\ columns = {}
  /\ df = <<>>
  /\ all_sectors = <<>>
  /\ selected_sectors = {}
  /\ all_stages = <<>>
  /\ selected_stages = {}
  /\ filtered_df = <<>>
  /\ display_df = <<>>
  /\ ui = {}
  /\ ran = <<>>
  /\ raw = <<>>
  /\ tags = <<>>

\* What read_csv meets at DATA_PATH: no file, a file it cannot read or
\* parse, or a readable file.
SourceStates == {"missing", "unreadable", "ok"}

\* Lines 17-21: read the CSV; FileNotFoundError is caught, reported with
\* st.error and ends the run with st.stop(); any other exception of
\* read_csv is not caught and aborts the script.
Load ==
  /\ pc = "start"
  /\ ran' = Append(ran, "load")
  /\ \E s \in SourceStates :
       /\ source' = s
       /\ \/ /\ s = "missing"
             /\ ui' = ui \cup {"error_not_found"}
             /\ pc' = "stopped"
             /\ UNCHANGED <<columns, df>>
          \/ /\ s = "unreadable"
             /\ pc' = "crashed"
             /\ UNCHANGED <<columns, df, ui>>
          \/ /\ s = "ok"
             /\ \E f \in CsvFiles :
                  /\ columns' = f.columns
                  /\ df' = f.rows
             /\ pc' = "loaded"
             /\ UNCHANGED ui
  /\ UNCHANGED <<all_sectors, selected_sectors, all_stages, selected_stages,
                 filtered_df, display_df, raw, tags>>

\* The columns= mapping of df.rename, lines 27-33.
rename(c) ==
  IF c = Name THEN name
  ELSE IF c \in {Lat, Latitude} THEN latitude
  ELSE IF c \in {Long, Longitude} THEN longitude
  ELSE c

\* Lines 24-33 on one column name: strip, then rename.
clean(c) == rename(Strip(c))

\* Lines 23-33: strip the column names and rename the aliases.
CleanColumnNames ==
  /\ pc = "loaded"
  /\ columns' = {clean(c) : c \in columns}
  /\ df' = [i \in 1..Len(df) |->
              [c \in columns' |->
                 df[i][CHOOSE o \in columns : clean(o) = c]]]
  /\ pc' = "named"
  /\ ran' = Append(ran, "clean_names")
  /\ UNCHANGED <<source, all_sectors, selected_sectors, all_stages,
                 selected_stages, filtered_df, display_df, ui, raw, tags>>

\* The check with `and` for `or`.
coordinates_missing_both(cols) ==
  latitude \notin cols /\ longitude \notin cols

\* The condition of line 36.
coordinates_missing(cols) == latitude \notin cols \/ longitude \notin cols

\* Lines 35-38: without both coordinate columns, st.error and st.stop().
ValidateCoordinates ==
  /\ pc = "named"
  /\ IF coordinates_missing(columns)
       THEN /\ ui' = ui \cup {"error_schema"}
            /\ pc' = "stopped"
       ELSE /\ pc' = "validated"
            /\ UNCHANGED ui
  /\ ran' = Append(ran, "validate")
  /\ UNCHANGED <<source, columns, df, all_sectors, selected_sectors,
                 all_stages, selected_stages, filtered_df, display_df,
                 raw, tags>>

\* df.dropna(subset=["latitude", "longitude"]): NaN is missing, inf is not.
dropna(rows) ==
  SelectSeq(rows, LAMBDA r : r[latitude].k # "nan" /\ r[longitude].k # "nan")

\* Lines 40-43: coerce both coordinate columns, drop the rows missing one.
ForceNumeric ==
  /\ pc = "validated"
  /\ df' = dropna([i \in 1..Len(df) |->
                     [df[i] EXCEPT ![latitude] = to_numeric(@),
                                   ![longitude] = to_numeric(@)]])
  /\ pc' = "numeric"
  /\ ran' = Append(ran, "numeric")
  /\ UNCHANGED <<source, columns, all_sectors, selected_sectors, all_stages,
                 selected_stages, filtered_df, display_df, ui, raw, tags>>

\* Offsets drawn from an interval one unit too wide.
uniform_wide(n) == [1..n -> (0 - JITTER)..(JITTER + 1)]

\* np.random.uniform(-0.002, 0.002, n): n offsets, each any value between
\* the two ends.
uniform(n) == [1..n -> (0 - JITTER)..JITTER]

\* Lines 45-47: the two jitter columns, one draw per row and per column.
AddJitter ==
  /\ pc = "numeric"
  /\ \E u \in uniform(Len(df)), w \in uniform(Len(df)) :
       df' = [i \in 1..Len(df) |->
                (lat_jitter :> FloatAdd(df[i][latitude], u[i]))
                  @@ (lon_jitter :> FloatAdd(df[i][longitude], w[i]))
                  @@ df[i]]
  /\ columns' = columns \cup {lat_jitter, lon_jitter}
  /\ pc' = "jittered"
  /\ ran' = Append(ran, "jitter")
  /\ UNCHANGED <<source, all_sectors, selected_sectors, all_stages,
                 selected_stages, filtered_df, display_df, ui, raw, tags>>

\* Lines 52-53 on one cell: astype(str), then the split/strip lambda.
clean_tags(cell) == List(ParseTags(astype_str(cell)))

\* Lines 49-53: the Stage and Sector columns become lists of tags.
CleanStageSector ==
  /\ pc = "jittered"
  /\ df' = [i \in 1..Len(df) |->
              [df[i] EXCEPT ![Stage] = clean_tags(@),
                            ![Sector] = clean_tags(@)]]
  /\ pc' = "cleaned"
  /\ ran' = Append(ran, "clean_tags")
  /\ UNCHANGED <<source, columns, all_sectors, selected_sectors, all_stages,
                 selected_stages, filtered_df, display_df, ui, raw, tags>>

\* sorted({s for sublist in df[col] for s in sublist})
all_tags(rows, col) ==
  Sorted(UNION {Range(rows[i][col].v) : i \in 1..Len(rows)})

\* Lines 55-64: the options of the two multiselects and the user's choice
\* among them, every option being selected by default.
SidebarFilters ==
  /\ pc = "cleaned"
  /\ all_sectors' = all_tags(df, Sector)
  /\ selected_sectors' \in SUBSET Range(all_sectors')
  /\ all_stages' = all_tags(df, Stage)
  /\ selected_stages' \in SUBSET Range(all_stages')
  /\ pc' = "sidebar"
  /\ ran' = Append(ran, "sidebar")
  /\ UNCHANGED <<source, columns, df, filtered_df, display_df, ui, raw, tags>>

\* A row without tags taken to match every selection.
any_in_or_empty(tag_list, selected) ==
  tag_list = <<>> \/ \E i \in 1..Len(tag_list) : tag_list[i] \in selected

\* any(s in selected for s in tag_list)
any_in(tag_list, selected) ==
  \E i \in 1..Len(tag_list) : tag_list[i] \in selected

\* The two conditions joined with | for &.
mask_or(row, sectors, stages) ==
  (\E i \in 1..Len(row[Sector].v) : row[Sector].v[i] \in sectors)
    \/ (\E i \in 1..Len(row[Stage].v) : row[Stage].v[i] \in stages)

\* The boolean mask of lines 83-84 on one row.
mask(row, sectors, stages) ==
  any_in(row[Sector].v, sectors) /\ any_in(row[Stage].v, stages)

\* An empty selection taken to mean no filter on that dimension.
filter_all_on_empty(rows, sectors, stages) ==
  SelectSeq(rows, LAMBDA r :
    /\ (sectors = {} \/ \E i \in 1..Len(r[Sector].v) : r[Sector].v[i] \in sectors)
    /\ (stages = {} \/ \E i \in 1..Len(r[Stage].v) : r[Stage].v[i] \in stages))

\* Lines 78-85: the value of filtered_df.
filter(rows, sectors, stages) ==
  IF sectors = {} \/ stages = {}
    THEN <<>>
    ELSE SelectSeq(rows, LAMBDA r : mask(r, sectors, stages))

\* Lines 75-85: warn on an empty selection, else filter.
Filtering ==
  /\ pc = "sidebar"
  /\ filtered_df' = filter(df, selected_sectors, selected_stages)
  /\ ui' = IF selected_sectors = {} \/ selected_stages = {}
             THEN ui \cup {"warning"} ELSE ui
  /\ pc' = "filtered"
  /\ ran' = Append(ran, "filter")
  /\ UNCHANGED <<source, columns, df, all_sectors, selected_sectors,
                 all_stages, selected_stages, display_df, raw, tags>>

\* Lines 92-94: a copy of the rows with the two joined tag columns.
with_strings(rows) ==
  [i \in 1..Len(rows) |->
     (Stage_Str :> Str(Join(rows[i][Stage].v)))
       @@ (Sector_Str :> Str(Join(rows[i][Sector].v)))
       @@ rows[i]]

\* The joined tag columns written to df itself, not to a copy.
Table_inplace ==
  /\ pc = "filtered"
  /\ df' = with_strings(df)
  /\ display_df' = with_strings(filtered_df)
  /\ ui' = ui \cup {"table"}
  /\ pc' = "table"
  /\ ran' = Append(ran, "table")
  /\ UNCHANGED <<source, columns, all_sectors, selected_sectors,
                 all_stages, selected_stages, filtered_df, raw, tags>>

\* Lines 87-99: the results table.
Table ==
  /\ pc = "filtered"
  /\ display_df' = with_strings(filtered_df)
  /\ ui' = ui \cup {"table"}
  /\ pc' = "table"
  /\ ran' = Append(ran, "table")
  /\ UNCHANGED <<source, columns, df, all_sectors, selected_sectors,
                 all_stages, selected_stages, filtered_df, raw, tags>>

\* Lines 101-162: the map, or a note when nothing matches.
Map ==
  /\ pc = "table"
  /\ ui' = IF filtered_df # <<>> THEN ui \cup {"map"} ELSE ui \cup {"info"}
  /\ pc' = "map"
  /\ ran' = Append(ran, "map")
  /\ UNCHANGED <<source, columns, df, all_sectors, selected_sectors,
                 all_stages, selected_stages, filtered_df, display_df,
                 raw, tags>>

\* Lines 164-180: the detail panel of one of the filtered firms.
Detail ==
  /\ pc = "map"
  /\ ui' = IF filtered_df # <<>> THEN ui \cup {"detail"} ELSE ui
  /\ pc' = "done"
  /\ ran' = Append(ran, "detail")
  /\ UNCHANGED <<source, columns, df, all_sectors, selected_sectors,
                 all_stages, selected_stages, filtered_df, display_df,
                 raw, tags>>

Next ==
  \/ Load
  \/ CleanColumnNames
  \/ ValidateCoordinates
  \/ ForceNumeric
  \/ AddJitter
  \/ CleanStageSector
  \/ SidebarFilters
  \/ Filtering
  \/ Table
  \/ Map
  \/ Detail

Spec == Init /\ [][Next]_vars

----------------------------------------------------------------------------
(* The tag parser on its own: every raw text up to MaxLen characters. *)

Alphabet == {"a", "b", ",", " ", "\t"}

Texts == UNION {[1..m -> Alphabet] : m \in 0..MaxLen}

InitParse ==
  /\ pc = "tag_parser"
  /\ source = "unread"
  /\ columns = {}
  /\ df = <<>>
  /\ all_sectors = <<>>
  /\ selected_sectors = {}
  /\ all_stages = <<>>
  /\ selected_stages = {}
  /\ filtered_df = <<>>
  /\ display_df = <<>>
  /\ ui = {}
  /\ ran = <<>>
  /\ raw \in Texts
  /\ tags = <<>>

\* The lambda of lines 52-53 applied to the text raw.
TagParser ==
  /\ pc = "tag_parser"
  /\ tags' = ParseTags(raw)
  /\ pc' = "tag_parsed"
  /\ UNCHANGED <<source, columns, df, all_sectors, selected_sectors,
                 all_stages, selected_stages, filtered_df, display_df, ui,
                 ran, raw>>

NextParse == TagParser

SpecParse == InitParse /\ [][NextParse]_vars

----------------------------------------------------------------------------
(* Properties. *)

\* Float comparison x <= y; false when either side is NaN.
FloatLeq(x, y) ==
  IF x.k = "nan" \/ y.k = "nan" THEN FALSE
  ELSE IF x.k = "inf" THEN x.v = -1 \/ (y.k = "inf" /\ y.v = 1)
  ELSE IF y.k = "inf" THEN y.v = 1
  ELSE x.v <= y.v

IsFinite(x) == x.k = "fin"

\* The step has run in this run of the script.
Ran(step) == \E i \in 1..Len(ran) : ran[i] = step

\* The rows of a sequence at the positions keep, in order.
Picked(rows, keep) ==
  [j \in 1..Cardinality(keep) |-> rows[Ascending(keep)[j]]]

\* The row has a tag of the selection in the column.
Intersects(row, col, selection) == Range(row[col].v) \cap selection # {}

\* C1: with two non-empty selections the filter returns exactly the rows of
\* the dataset with a selected sector and a selected stage, in dataset order;
\* a row with sectors [Fin, SaaS] and stages [A] is left out under the
\* selection {Fin} / {Seed}.
C1_FilterExact ==
  (Ran("filter") /\ selected_sectors # {} /\ selected_stages # {}) =>
    /\ filtered_df =
         Picked(df, {i \in 1..Len(df) :
                       /\ Intersects(df[i], Sector, selected_sectors)
                       /\ Intersects(df[i], Stage, selected_stages)})
    /\ \A i \in 1..Len(df) :
         ( /\ df[i][Sector].v = <<FinTag, SaaSTag>>
           /\ df[i][Stage].v = <<SeriesA>>
           /\ selected_sectors = {FinTag}
           /\ selected_stages = {Seed} )
         => \A j \in 1..Len(filtered_df) : filtered_df[j] # df[i]

\* The end-to-end scenario: of the rows A (Fin, SaaS / Seed) and B
\* (Fin, SaaS / A), the selection {Fin} / {Seed} yields A alone.
C1_Witness ==
  /\ pc = "filtered"
  /\ Len(df) = 2
  /\ df[2][Sector].v = <<FinTag, SaaSTag>>
  /\ df[2][Stage].v = <<SeriesA>>
  /\ selected_sectors = {FinTag}
  /\ selected_stages = {Seed}
  /\ Len(filtered_df) = 1
  /\ filtered_df[1][name] = Str(<<"A">>)

\* C2: with an empty sector selection or an empty stage selection the filter
\* result is empty and the warning is shown, and the script neither stops
\* nor fails: it goes on to the table, the map and the detail panel.
C2_EmptySelection ==
  (Ran("filter") /\ (selected_sectors = {} \/ selected_stages = {})) =>
    /\ filtered_df = <<>>
    /\ "warning" \in ui
    /\ pc \notin {"stopped", "crashed"}
    /\ pc # "done" => ENABLED Next
    /\ Ran("table") => "table" \in ui
    /\ Ran("map") => "info" \in ui

\* A run that ends with the table shown although rows with tags were loaded
\* and the sector selection was cleared.
C2_Witness ==
  /\ pc = "done"
  /\ Len(df) = 2
  /\ all_sectors # <<>>
  /\ selected_sectors = {}
  /\ selected_stages # {}
  /\ "table" \in ui

\* C3: once the loader has finished, every row of the dataset has a finite
\* latitude and a finite longitude.
C3_FiniteCoordinates ==
  Ran("numeric") =>
    \A i \in 1..Len(df) :
      IsFinite(df[i][latitude]) /\ IsFinite(df[i][longitude])

\* The characters that separate or pad tags.
Filler == Whitespace \cup {","}

\* The tags lie in the text at the positions p, in order, with a comma
\* between neighbours and nothing but commas and whitespace around them.
LiesAt(text, tgs, p) ==
  /\ \A i \in 1..Len(tgs) :
       /\ p[i] + Len(tgs[i]) - 1 <= Len(text)
       /\ SubSeq(text, p[i], p[i] + Len(tgs[i]) - 1) = tgs[i]
  /\ \A i \in 1..(Len(tgs) - 1) :
       \E j \in (p[i] + Len(tgs[i]))..(p[i + 1] - 1) : text[j] = ","
  /\ \A j \in 1..Len(text) :
       (\A i \in 1..Len(tgs) : j < p[i] \/ j >= p[i] + Len(tgs[i]))
         => text[j] \in Filler

\* C4: the parsed tags are the comma-separated pieces of the text, trimmed,
\* the empty ones dropped, order and duplicates kept: no tag is empty, holds
\* a comma or starts or ends with whitespace; the tags lie in the text in
\* order, separated by commas, with only commas and whitespace around them;
\* a text of commas and whitespace only (the empty text too) has no tags.
C4_TagParser ==
  pc = "tag_parsed" =>
    /\ \A i \in 1..Len(tags) :
         /\ tags[i] # <<>>
         /\ Head(tags[i]) \notin Whitespace
         /\ tags[i][Len(tags[i])] \notin Whitespace
         /\ "," \notin Range(tags[i])
    /\ \E p \in [1..Len(tags) -> 1..Len(raw)] : LiesAt(raw, tags, p)
    /\ (\A j \in 1..Len(raw) : raw[j] \in Filler) => tags = <<>>

\* "a, a" parsed to the tag a twice.
C4_Witness ==
  /\ pc = "tag_parsed"
  /\ raw = <<"a", ",", " ", "a">>
  /\ tags = << <<"a">>, <<"a">> >>

\* The tag step turns a missing Sector or Stage cell into the one tag "nan".
C5_Step ==
  (pc = "jittered" /\ pc' = "cleaned") =>
    /\ Len(df') = Len(df)
    /\ \A i \in 1..Len(df) :
         /\ df[i][Sector] = NaN => df'[i][Sector] = List(<<nanTag>>)
         /\ df[i][Stage] = NaN => df'[i][Stage] = List(<<nanTag>>)

\* A row whose tag list is the one tag "nan" puts "nan" among the options and
\* is matched when "nan" is selected (and the other dimension matches too).
C5_Selectable ==
  \A i \in 1..Len(df) :
    /\ (Ran("sidebar") /\ df[i][Sector] = List(<<nanTag>>)) =>
         /\ nanTag \in Range(all_sectors)
         /\ ( /\ Ran("filter")
              /\ nanTag \in selected_sectors
              /\ Intersects(df[i], Stage, selected_stages) )
            => \E j \in 1..Len(filtered_df) : filtered_df[j] = df[i]
    /\ (Ran("sidebar") /\ df[i][Stage] = List(<<nanTag>>)) =>
         /\ nanTag \in Range(all_stages)
         /\ ( /\ Ran("filter")
              /\ nanTag \in selected_stages
              /\ Intersects(df[i], Sector, selected_sectors) )
            => \E j \in 1..Len(filtered_df) : filtered_df[j] = df[i]

\* C5: a missing Sector (or Stage) value becomes the one-element tag list
\* ["nan"], "nan" is then among the selectable tags, and the row is matched
\* by the filter when "nan" is selected.
C5_MissingIsNanTag == [][C5_Step]_vars /\ []C5_Selectable

\* Row C, whose Sector cell is missing in the file, matched under the
\* selection {nan}.
C5_Witness ==
  /\ pc = "filtered"
  /\ selected_sectors = {nanTag}
  /\ Len(filtered_df) = 1
  /\ filtered_df[1][name] = Str(<<"C">>)
  /\ filtered_df[1][Sector] = List(<<nanTag>>)

\* C6: when the normalised table lacks the latitude or the longitude column,
\* validation shows the schema error and stops the script: nothing after the
\* validation runs, and no table, map or filter result is produced.
C6_SchemaError ==
  (Ran("validate") /\ (latitude \notin columns \/ longitude \notin columns)) =>
    /\ pc = "stopped"
    /\ "error_schema" \in ui
    /\ ran = <<"load", "clean_names", "validate">>
    /\ ui \cap {"table", "map", "detail", "warning", "info"} = {}
    /\ filtered_df = <<>> /\ display_df = <<>>
    /\ ~ ENABLED Next

\* A file with a Lat column and no longitude alias, stopped at validation.
C6_Witness ==
  /\ pc = "stopped"
  /\ "error_schema" \in ui
  /\ latitude \in columns
  /\ longitude \notin columns
  /\ df # <<>>

\* C7: when the source file is missing or unreadable the run ends stopped
\* with the blocking error message shown, and neither the table nor the map
\* is rendered.
C7_DataUnavailable ==
  source \in {"missing", "unreadable"} =>
    /\ pc = "stopped"
    /\ "error_not_found" \in ui
    /\ ui \cap {"table", "map"} = {}

\* The jittered coordinates lie within JITTER of the true ones.
C8_Within ==
  Ran("jitter") =>
    \A i \in 1..Len(df) :
      /\ FloatLeq(FloatAdd(df[i][latitude], 0 - JITTER), df[i][lat_jitter])
      /\ FloatLeq(df[i][lat_jitter], FloatAdd(df[i][latitude], JITTER))
      /\ FloatLeq(FloatAdd(df[i][longitude], 0 - JITTER), df[i][lon_jitter])
      /\ FloatLeq(df[i][lon_jitter], FloatAdd(df[i][longitude], JITTER))

\* The jitter step leaves the rows' true coordinates as they were.
C8_Step ==
  (pc = "numeric" /\ pc' = "jittered") =>
    /\ Len(df') = Len(df)
    /\ \A i \in 1..Len(df) :
         /\ df'[i][latitude] = df[i][latitude]
         /\ df'[i][longitude] = df[i][longitude]

\* C8: every row's jittered latitude and longitude lie within 0.002 degrees
\* (one unit) of its latitude and longitude, and the jitter step does not
\* change the latitude and longitude themselves.
C8_JitterBounds == []C8_Within /\ [][C8_Step]_vars

\* Two rows at the same place whose four offsets differ by axis and by row:
\* +1 and -1 for the first row, 0 and +1 for the second.
C8_Witness ==
  /\ pc = "jittered"
  /\ Len(df) = 2
  /\ df[1][latitude] = Fin(3) /\ df[1][lat_jitter] = Fin(4)
  /\ df[1][longitude] = Fin(-7) /\ df[1][lon_jitter] = Fin(-8)
  /\ df[2][latitude] = Fin(3) /\ df[2][lat_jitter] = Fin(3)
  /\ df[2][longitude] = Fin(-7) /\ df[2][lon_jitter] = Fin(-6)

IsPrefix(s, t) == Len(s) <= Len(t) /\ SubSeq(t, 1, Len(s)) = s

\* The order of the steps in the script.
ScriptOrder ==
  <<"load", "clean_names", "validate", "numeric", "jitter", "clean_tags",
    "sidebar", "filter", "table", "map", "detail">>

\* The order of the steps with the tag parser ahead of the jitter.
ParserFirstOrder ==
  <<"load", "clean_names", "validate", "numeric", "clean_tags", "jitter",
    "sidebar", "filter", "table", "map", "detail">>

C10_DefaultSelection ==
  Ran("filter") =>
    /\ ( /\ selected_sectors = Range(all_sectors)
         /\ selected_stages = Range(all_stages) )
       => filtered_df =
            Picked(df, {i \in 1..Len(df) :
                          df[i][Sector].v # <<>> /\ df[i][Stage].v # <<>>})
    /\ \A i \in 1..Len(df) :
         (df[i][Sector].v = <<>> \/ df[i][Stage].v = <<>>)
           => \A j \in 1..Len(filtered_df) : filtered_df[j] # df[i]

\* The default selection over two rows, one of them without sectors: the
\* result is the other row alone.
C10_Witness ==
  /\ pc = "filtered"
  /\ selected_sectors = Range(all_sectors)
  /\ selected_stages = Range(all_stages)
  /\ Len(df) = 2
  /\ df[2][Sector].v = <<>>
  /\ filtered_df = <<df[1]>>

====
